---------------------------- MODULE Spec2Model ----------------------------
(***************************************************************************)
(* Model of the risk ledger (app/services/bank_management.py), the RSI and *)
(* volume indicators and the signal fusion (app/services/analysis.py) and  *)
(* the execution orchestrator (app/services/trading.py: execute_trades,    *)
(* check_trade_results) of the IQ Option trading application.              *)
(*                                                                         *)
(* Money is held in integer cents (1 dollar = 100).  Percentages and the   *)
(* fused strength are exact rationals [num, den] with den > 0, compared by *)
(* multiplying out.  The 'timestamp' field of a trade record is omitted:   *)
(* no decision in the code reads it.                                       *)
(***************************************************************************)
EXTENDS Integers, Sequences, FiniteSets, TLC

(* ------------------------------ bounds --------------------------------- *)
MaxDay == 2
MaxAssets == 1
MaxTrades == 1
\* Longest asset list of a batch, and most positions one broker reply lists.
MaxBatchAssets == 2
MaxPositions == 1
\* Most bars of a candle series given to calculate_rsi / analyze_volume.
MaxRsiBars == 16
MaxVolumeBars == 11
MaxPatternBars == 2

(* -------------------------- program constants -------------------------- *)
\* config.py: fractions are expressed in percent (0.40 -> 40).
EXPIRATION_TIME == 1
MAX_BANK_PERCENTAGE == 20
DAILY_STOP_LOSS == 40
DAILY_STOP_GAIN == 100
\* trading.py:59  overall['strength'] < 60
STRENGTH_THRESHOLD == 60
\* config.py:23-25
RSI_PERIOD == 14
RSI_OVERBOUGHT == 70
RSI_OVERSOLD == 30
\* analysis.py:136  rolling(window=10)
VOLUME_WINDOW == 10
\* bank_management.py:135 / trading.py:46  minimum trade amount 1, in cents
MIN_AMOUNT == 100

(* ------------------------------ input sets ----------------------------- *)
ProcIds == {1, 2}
Assets == {"EURUSD", "GBPUSD"}
Balances == {100000, 200000}
SignalKinds == {"CALL", "PUT", "NEUTRAL"}
IndicatorKeys == {"rsi", "macd", "volume", "patterns"}

\* The asset names are interchangeable: a list names "EURUSD" first.
AssetLists ==
  {l \in UNION {[1..n -> Assets] : n \in 0..MaxAssets} :
     Len(l) > 0 => l[1] = "EURUSD"}

BatchAssetLists ==
  {l \in UNION {[1..n -> Assets] : n \in 0..MaxBatchAssets} :
     Len(l) > 0 => l[1] = "EURUSD"}

(* ------------------------------ helpers -------------------------------- *)
NoneVal == [ok |-> FALSE, val |-> 0]
Some(v) == [ok |-> TRUE, val |-> v]

Rat(n, d) == [num |-> n, den |-> d]
RatLT(r, k) == r.num < k * r.den
RatLE(r, k) == r.num <= k * r.den
RatGE(r, k) == r.num >= k * r.den

Max(a, b) == IF a >= b THEN a ELSE b
Abs(a) == IF a >= 0 THEN a ELSE -a

VARIABLES
  today,        \* wall-clock date, date.today()
  connected,    \* iq_api.connected
  daily_stats,  \* bank_management.daily_stats
  pc,           \* per request thread: position inside the /trade handler
  frame,        \* per request thread: locals of execute_trades
  firstRead,    \* history: first successful balance read of the start day
  stopSeen,     \* history: trading days on which a stop was observed today
  fn_in,        \* argument of the function a single-function run applies
  fn_out        \* [done, val]: its result

vars == <<today, connected, daily_stats, pc, frame, firstRead, stopSeen,
          fn_in, fn_out>>
fn == <<fn_in, fn_out>>

(* ----------------------- gateway: iq_api.get_balance ------------------- *)
\* GetBalance that answers 0 when not connected.
GetBalance_zero(conn) == IF conn THEN {Some(b) : b \in Balances} ELSE {Some(0)}

\* iqoption.py:44-52: None when not connected, else what the broker returns.
GetBalance(conn) == IF conn THEN {Some(b) : b \in Balances} ELSE {NoneVal}

(* ----------------------------- risk ledger ----------------------------- *)
InitialDailyStats(d) ==
  [date |-> d, initial_balance |-> 0, current_balance |-> 0,
   profit_loss |-> 0, trades |-> <<>>, assets |-> <<>>]

\* InitializeDailyStats that resets the balances but keeps the day's records.
InitializeDailyStats_keeptrades(ds, tdy, bal) ==
  IF ds.date # tdy /\ bal.ok
    THEN [ds EXCEPT !.date = tdy, !.initial_balance = bal.val,
                    !.current_balance = bal.val, !.profit_loss = 0]
    ELSE ds

InitializeDailyStats(ds, tdy, bal) ==
  IF ds.date # tdy
    THEN IF bal.ok
           THEN [date |-> tdy, initial_balance |-> bal.val,
                 current_balance |-> bal.val, profit_loss |-> 0,
                 trades |-> <<>>, assets |-> <<>>]
           ELSE ds
    ELSE ds

\* UpdateBalance that stores the balance without recomputing the P/L.
UpdateBalance_stale(ds, bal) ==
  IF bal.ok THEN [ds EXCEPT !.current_balance = bal.val] ELSE ds

UpdateBalance(ds, bal) ==
  IF bal.ok
    THEN [ds EXCEPT !.current_balance = bal.val,
                    !.profit_loss = bal.val - ds.initial_balance]
    ELSE ds

\* "Initialize if needed" followed by "Update balance", as it opens both
\* check_stop_conditions and calculate_entry_amount.
InitIfNeededThenUpdate(ds, tdy, bal1, bal2) ==
  UpdateBalance(IF ds.initial_balance = 0
                  THEN InitializeDailyStats(ds, tdy, bal1)
                  ELSE ds,
                bal2)

PlPercentage(ds) ==
  IF ds.initial_balance > 0
    THEN Rat(ds.profit_loss * 100, ds.initial_balance)
    ELSE Rat(0, 1)

\* StopDecision with exclusive thresholds.
StopDecision_strict(ds) ==
  LET pl_percentage == PlPercentage(ds) IN
  IF RatLT(pl_percentage, -DAILY_STOP_LOSS)
    THEN [stop_triggered |-> TRUE, reason |-> "STOP_LOSS",
          percentage |-> pl_percentage]
    ELSE IF ~RatLE(pl_percentage, DAILY_STOP_GAIN)
      THEN [stop_triggered |-> TRUE, reason |-> "STOP_GAIN",
            percentage |-> pl_percentage]
      ELSE [stop_triggered |-> FALSE, reason |-> "NONE",
            percentage |-> pl_percentage]

StopDecision(ds) ==
  LET pl_percentage == PlPercentage(ds) IN
  IF RatLE(pl_percentage, -DAILY_STOP_LOSS)
    THEN [stop_triggered |-> TRUE, reason |-> "STOP_LOSS",
          percentage |-> pl_percentage]
    ELSE IF RatGE(pl_percentage, DAILY_STOP_GAIN)
      THEN [stop_triggered |-> TRUE, reason |-> "STOP_GAIN",
            percentage |-> pl_percentage]
      ELSE [stop_triggered |-> FALSE, reason |-> "NONE",
            percentage |-> pl_percentage]

\* check_stop_conditions: the ledger it leaves and the dict it returns.
CheckStopConditions(ds, tdy, bal1, bal2) ==
  LET ds1 == InitIfNeededThenUpdate(ds, tdy, bal1, bal2)
  IN [daily_stats |-> ds1, result |-> StopDecision(ds1)]

\* round(x, 2) of the non-negative amount num/den cents: nearest cent,
\* an exact half going to the even cent.
RoundCents(num, den) ==
  LET q == num \div den
      r == num % den
  IN IF 2 * r > den \/ (2 * r = den /\ q % 2 = 1) THEN q + 1 ELSE q

\* PerAssetAmount without the minimum trade amount.
PerAssetAmount_nomin(current_balance, num_assets) ==
  RoundCents(current_balance * MAX_BANK_PERCENTAGE, 100 * num_assets)

PerAssetAmount(current_balance, num_assets) ==
  Max(MIN_AMOUNT,
      RoundCents(current_balance * MAX_BANK_PERCENTAGE, 100 * num_assets))

Range(s) == {s[k] : k \in DOMAIN s}

\* The part of calculate_entry_amount after the balance update.
EntryAmounts(ds, assets) ==
  IF Len(assets) = 0
    THEN <<>>
    ELSE [a \in Range(assets) |->
            PerAssetAmount(ds.current_balance, Len(assets))]

\* calculate_entry_amount: the ledger it leaves and the dict it returns.
CalculateEntryAmount(ds, tdy, bal1, bal2, assets) ==
  LET ds1 == InitIfNeededThenUpdate(ds, tdy, bal1, bal2)
  IN [daily_stats |-> ds1, result |-> EntryAmounts(ds1, assets)]

\* NewAssetStats that counts the trade being recorded already.
NewAssetStats_counted == [trades |-> 1, wins |-> 0, losses |-> 0, profit_loss |-> 0]

NewAssetStats == [trades |-> 0, wins |-> 0, losses |-> 0, profit_loss |-> 0]

\* RecordTrade that also books a known profit_loss on the ledger's own
\* profit_loss.
RecordTrade_doublecount(ds, asset, amount, direction, result, profit_loss) ==
  LET stats0 == IF asset \in DOMAIN ds.assets
                  THEN ds.assets
                  ELSE (asset :> NewAssetStats) @@ ds.assets
      trade == [asset |-> asset, amount |-> amount, direction |-> direction,
                result |-> result, profit_loss |-> profit_loss]
      st == stats0[asset]
      st1 == IF result # "NONE"
               THEN [trades |-> st.trades + 1,
                     wins |-> st.wins + (IF result = "WIN" THEN 1 ELSE 0),
                     losses |-> st.losses + (IF result = "LOSS" THEN 1 ELSE 0),
                     profit_loss |-> st.profit_loss +
                        (IF profit_loss.ok THEN profit_loss.val ELSE 0)]
               ELSE st
  IN [ds EXCEPT !.trades = Append(ds.trades, trade),
                !.assets = [stats0 EXCEPT ![asset] = st1],
                !.profit_loss = @ + (IF result # "NONE" /\ profit_loss.ok
                                       THEN profit_loss.val ELSE 0)]

\* RecordTrade that prepares the asset's statistics but appends no record.
RecordTrade_unrecorded(ds, asset, amount, direction, result, profit_loss) ==
  IF asset \in DOMAIN ds.assets
    THEN ds
    ELSE [ds EXCEPT !.assets = (asset :> NewAssetStats) @@ ds.assets]

RecordTrade(ds, asset, amount, direction, result, profit_loss) ==
  LET stats0 == IF asset \in DOMAIN ds.assets
                  THEN ds.assets
                  ELSE (asset :> NewAssetStats) @@ ds.assets
      trade == [asset |-> asset, amount |-> amount, direction |-> direction,
                result |-> result, profit_loss |-> profit_loss]
      st == stats0[asset]
      st1 == IF result # "NONE"
               THEN [trades |-> st.trades + 1,
                     wins |-> st.wins + (IF result = "WIN" THEN 1 ELSE 0),
                     losses |-> st.losses + (IF result = "LOSS" THEN 1 ELSE 0),
                     profit_loss |-> st.profit_loss +
                        (IF profit_loss.ok THEN profit_loss.val ELSE 0)]
               ELSE st
  IN [ds EXCEPT !.trades = Append(ds.trades, trade),
                !.assets = [stats0 EXCEPT ![asset] = st1]]

(* ------------------------------ indicators ----------------------------- *)
\* A float that may be NaN; when it is not, the exact value num/den.
NaN == [nan |-> TRUE, num |-> 0, den |-> 1]
Num(n, d) == [nan |-> FALSE, num |-> n, den |-> d]

RECURSIVE SumSeq(_, _, _)
SumSeq(s, from, to) ==
  IF from > to THEN 0 ELSE s[to] + SumSeq(s, from, to - 1)

\* analysis.py:59-63  delta = close.diff(); the first delta is NaN, which
\* 'where' turns into 0 in both series.
Gain(close) ==
  [k \in DOMAIN close |->
     IF k > 1 /\ close[k] - close[k - 1] > 0 THEN close[k] - close[k - 1] ELSE 0]

Loss(close) ==
  [k \in DOMAIN close |->
     IF k > 1 /\ close[k] - close[k - 1] < 0 THEN close[k - 1] - close[k] ELSE 0]

\* The sum behind the last value of series.rolling(window).mean(): absent
\* (the mean is NaN) while the series has fewer than 'window' entries.
RollingSumLast(series, window) ==
  IF Len(series) < window
    THEN NoneVal
    ELSE Some(SumSeq(series, Len(series) - window + 1, Len(series)))

\* analysis.py:70-74  rs = avg_gain / avg_loss; rsi = 100 - 100 / (1 + rs),
\* in float arithmetic: x/0 is inf for x > 0 and NaN for x = 0, 100/inf is 0.
LatestRsi(close, period) ==
  LET g == RollingSumLast(Gain(close), period)
      l == RollingSumLast(Loss(close), period)
  IN IF ~g.ok \/ ~l.ok
       THEN NaN
       ELSE IF l.val = 0
         THEN IF g.val = 0 THEN NaN ELSE Num(100, 1)
         ELSE Num(100 * g.val, g.val + l.val)

\* analysis.py:77-89  every comparison with NaN is false.
CalculateRsi(close) ==
  LET latest_rsi == LatestRsi(close, RSI_PERIOD)
      oversold == ~latest_rsi.nan
                    /\ latest_rsi.num < RSI_OVERSOLD * latest_rsi.den
      overbought == ~latest_rsi.nan
                      /\ latest_rsi.num > RSI_OVERBOUGHT * latest_rsi.den
  IN [value |-> latest_rsi,
      signal |-> IF oversold THEN "CALL"
                 ELSE IF overbought THEN "PUT" ELSE "NEUTRAL",
      overbought |-> overbought, oversold |-> oversold]

\* AnalyzeVolume that averages the bars there are when there are fewer than
\* VOLUME_WINDOW of them.
AnalyzeVolume_partial(volume, open, close) ==
  LET window == IF Len(volume) < VOLUME_WINDOW THEN Len(volume) ELSE VOLUME_WINDOW
      sum == SumSeq(volume, Len(volume) - window + 1, Len(volume))
      latest_volume == volume[Len(volume)]
      volume_ratio == Rat(latest_volume * window, sum)
      price_change == close - open
      high == 2 * volume_ratio.num > 3 * volume_ratio.den
  IN [volume |-> latest_volume,
      avg_volume |-> Rat(sum, window),
      volume_ratio |-> volume_ratio,
      signal |-> IF high /\ price_change > 0 THEN "CALL"
                 ELSE IF high /\ price_change < 0 THEN "PUT" ELSE "NEUTRAL"]

\* analysis.py:131-158  analyze_volume on the 'volume' column and the open
\* and close of the latest bar.  The volumes are positive.
AnalyzeVolume(volume, open, close) ==
  LET sum == RollingSumLast(volume, VOLUME_WINDOW)
      latest_volume == volume[Len(volume)]
      volume_ratio == IF sum.ok
                        THEN Rat(latest_volume * VOLUME_WINDOW, sum.val)
                        ELSE Rat(1, 1)
      price_change == close - open
      high == 2 * volume_ratio.num > 3 * volume_ratio.den
  IN [volume |-> latest_volume,
      avg_volume |-> IF sum.ok THEN Rat(sum.val, VOLUME_WINDOW) ELSE Rat(0, 1),
      volume_ratio |-> volume_ratio,
      signal |-> IF high /\ price_change > 0 THEN "CALL"
                 ELSE IF high /\ price_change < 0 THEN "PUT" ELSE "NEUTRAL"]

Min(a, b) == IF a <= b THEN a ELSE b

\* PatternSignal that looks at the engulfing patterns only.
PatternSignal_engulfingonly(patterns, is_bullish) ==
  IF patterns.bullish_engulfing THEN "CALL"
  ELSE IF patterns.bearish_engulfing THEN "PUT"
  ELSE "NEUTRAL"

\* analysis.py:206-211
PatternSignal(patterns, is_bullish) ==
  IF patterns.bullish_engulfing \/ (patterns.hammer /\ is_bullish)
    THEN "CALL"
    ELSE IF patterns.bearish_engulfing \/ (patterns.hammer /\ ~is_bullish)
      THEN "PUT"
      ELSE "NEUTRAL"

\* analysis.py:160-215  detect_candlestick_patterns on bars [open, high, low,
\* close], the prices in whole ticks.  A ratio whose divisor is 0 is taken
\* as 0; the engulfing entries are absent (read as False) with one bar.
DetectCandlestickPatterns(bars) ==
  LET n == Len(bars)
      latest == bars[n]
      body_size == Abs(latest.close - latest.open)
      upper_shadow == latest.high - Max(latest.open, latest.close)
      lower_shadow == Min(latest.open, latest.close) - latest.low
      is_bullish == latest.close > latest.open
      range == latest.high - latest.low
      doji == IF range > 0 THEN 10 * body_size < range ELSE TRUE
      hammer == /\ body_size > 0
                /\ lower_shadow > 2 * body_size
                /\ 2 * upper_shadow < body_size
      prev == bars[n - 1]
      prev_bullish == prev.close > prev.open
      patterns ==
        [doji |-> doji, hammer |-> hammer,
         bullish_engulfing |->
           /\ n >= 2
           /\ is_bullish /\ ~prev_bullish
           /\ latest.open < prev.close /\ latest.close > prev.open,
         bearish_engulfing |->
           /\ n >= 2
           /\ ~is_bullish /\ prev_bullish
           /\ latest.open > prev.close /\ latest.close < prev.open]
  IN [doji |-> patterns.doji, hammer |-> patterns.hammer,
      bullish_engulfing |-> patterns.bullish_engulfing,
      bearish_engulfing |-> patterns.bearish_engulfing,
      signal |-> PatternSignal(patterns, is_bullish)]

(* ---------------------------- signal fusion ---------------------------- *)
CountSignals(signals, kind) ==
  Cardinality({k \in DOMAIN signals : signals[k] = kind})

\* 'signals' maps the keys present in the dict to their 'signal' entry.
DetermineOverallSignal(signals) ==
  LET call_count == CountSignals(signals, "CALL")
      put_count == CountSignals(signals, "PUT")
      total_indicators == Cardinality(DOMAIN signals) - 1
  IN IF call_count > put_count
       THEN [signal |-> "CALL", strength |-> Rat(call_count * 100, total_indicators),
             call_count |-> call_count, put_count |-> put_count]
       ELSE IF put_count > call_count
         THEN [signal |-> "PUT", strength |-> Rat(put_count * 100, total_indicators),
               call_count |-> call_count, put_count |-> put_count]
         ELSE [signal |-> "NEUTRAL", strength |-> Rat(0, 1),
               call_count |-> call_count, put_count |-> put_count]

NoOverall ==
  [signal |-> "NEUTRAL", strength |-> Rat(0, 1), call_count |-> 0, put_count |-> 0]

NoAnalysis ==
  [ok |-> FALSE, signals |-> [k \in IndicatorKeys |-> "NEUTRAL"],
   overall |-> NoOverall]

\* analyze_asset on candles whose four indicator signals are 'sigs'.
Analysis(sigs) ==
  [ok |-> TRUE, signals |-> sigs, overall |-> DetermineOverallSignal(sigs)]

\* The outcomes of analyze_asset: None when get_candles returns nothing (not
\* connected, or no bars) or an indicator raises, else the analysis of the
\* candles received.
AnalyzeAsset(conn) ==
  IF conn
    THEN {NoAnalysis} \cup {Analysis(sigs) : sigs \in [IndicatorKeys -> SignalKinds]}
    ELSE {NoAnalysis}

StrongSignal(overall) ==
  ~(overall.signal = "NEUTRAL" \/ RatLT(overall.strength, STRENGTH_THRESHOLD))

(* ------------------------------ initial state -------------------------- *)
NoStopCheck ==
  [stop_triggered |-> FALSE, reason |-> "NONE", percentage |-> Rat(0, 1)]

NoResults ==
  [status |-> "none", reason |-> "NONE", percentage |-> Rat(0, 1),
   trades |-> <<>>]

\* Locals of one execute_trades call.  'overall' is kept only while the
\* iteration that computed it is running.  'balance' is the local of
\* initialize_daily_stats / update_balance, kept only while the statements
\* that use it run one by one.  'appended' and 'submitted' are history: the
\* records this call appended, the orders it gave to api.buy.
EmptyFrame ==
  [assets |-> <<>>, stop_check |-> NoStopCheck, entry_amounts |-> <<>>,
   i |-> 0, overall |-> NoOverall, results |-> NoResults, balance |-> NoneVal,
   appended |-> 0, submitted |-> <<>>]

StartDay == 0

Init ==
  /\ today = StartDay
  /\ connected = FALSE
  /\ daily_stats = InitialDailyStats(StartDay)
  /\ pc = [p \in ProcIds |-> "idle"]
  /\ frame = [p \in ProcIds |-> EmptyFrame]
  /\ firstRead = NoneVal
  /\ stopSeen = {}
  /\ fn_in = NoneVal
  /\ fn_out = [done |-> FALSE, val |-> NoneVal]

(* --------------------------- history bookkeeping ----------------------- *)
\* The first balance reply an "initialize if needed; update" sequence gets.
FirstReply(ds, tdy, bal1, bal2) ==
  IF ds.initial_balance = 0 /\ ds.date # tdy THEN bal1 ELSE bal2

NoteRead(bal) ==
  firstRead' = IF today = StartDay /\ ~firstRead.ok /\ bal.ok
                 THEN Some(bal.val)
                 ELSE firstRead

(* ------------------------------ environment ---------------------------- *)
\* Midnight passes.  The histories are per wall-clock day and start afresh.
AdvanceDay ==
  /\ today < MaxDay
  /\ today' = today + 1
  /\ firstRead' = NoneVal
  /\ stopSeen' = {}
  /\ UNCHANGED <<connected, daily_stats, pc, frame>>
  /\ UNCHANGED fn

\* POST /api/connect: iq_api.connect sets self.connected to the outcome.
Connect(p) ==
  /\ pc[p] = "idle"
  /\ \E ok \in BOOLEAN : connected' = ok
  /\ UNCHANGED <<today, daily_stats, pc, frame, firstRead, stopSeen>>
  /\ UNCHANGED fn

(* ------------------------------ stats read ----------------------------- *)
GetDailyStats(p) ==
  /\ pc[p] = "idle"
  /\ \E bal \in GetBalance(connected) :
       /\ daily_stats' = IF daily_stats.initial_balance = 0
                           THEN InitializeDailyStats(daily_stats, today, bal)
                           ELSE UpdateBalance(daily_stats, bal)
       /\ IF daily_stats.initial_balance = 0 /\ daily_stats.date = today
            THEN UNCHANGED firstRead
            ELSE NoteRead(bal)
  /\ pc' = [pc EXCEPT ![p] = "stats"]
  /\ UNCHANGED <<today, connected, frame, stopSeen>>
  /\ UNCHANGED fn

\* The caller of get_daily_stats is done with the returned ledger.
GetDailyStats_Return(p) ==
  /\ pc[p] = "stats"
  /\ pc' = [pc EXCEPT ![p] = "idle"]
  /\ UNCHANGED <<today, connected, daily_stats, frame, firstRead, stopSeen>>
  /\ UNCHANGED fn

(* ------------------------- execute_trades, by steps -------------------- *)
\* trading.py:25  stop_check = check_stop_conditions(), the request naming
\* one of the asset lists 'lists'.
ExecuteTrades_CheckOf(p, lists) ==
  /\ pc[p] = "idle"
  /\ \E assets \in lists, bal1, bal2 \in GetBalance(connected) :
       LET call == CheckStopConditions(daily_stats, today, bal1, bal2)
           ds == call.daily_stats
           sc == call.result
       IN /\ daily_stats' = ds
          /\ frame' = [frame EXCEPT ![p] =
                         [EmptyFrame EXCEPT !.assets = assets, !.stop_check = sc]]
          /\ NoteRead(FirstReply(daily_stats, today, bal1, bal2))
          /\ stopSeen' = IF sc.stop_triggered
                           THEN stopSeen \cup {ds.date}
                           ELSE stopSeen
  /\ pc' = [pc EXCEPT ![p] = "checked"]
  /\ UNCHANGED <<today, connected>>
  /\ UNCHANGED fn

ExecuteTrades_Check(p) == ExecuteTrades_CheckOf(p, AssetLists)

\* ShouldStop that lets a stop-gain pass.
ShouldStop_lossonly(stop_check) ==
  stop_check.stop_triggered /\ stop_check.reason = "STOP_LOSS"

ShouldStop(stop_check) == stop_check.stop_triggered

\* trading.py:26-32
ExecuteTrades_Stopped(p) ==
  /\ pc[p] = "checked"
  /\ ShouldStop(frame[p].stop_check)
  /\ frame' = [frame EXCEPT ![p].results =
                 [status |-> "stopped", reason |-> frame[p].stop_check.reason,
                  percentage |-> frame[p].stop_check.percentage,
                  trades |-> <<>>]]
  /\ pc' = [pc EXCEPT ![p] = "done"]
  /\ UNCHANGED <<today, connected, daily_stats, firstRead, stopSeen>>
  /\ UNCHANGED fn

\* trading.py:35-40  entry_amounts = calculate_entry_amount(assets)
ExecuteTrades_Size(p) ==
  /\ pc[p] = "checked"
  /\ ~ShouldStop(frame[p].stop_check)
  /\ \E bal1, bal2 \in GetBalance(connected) :
       LET call == CalculateEntryAmount(daily_stats, today, bal1, bal2,
                                        frame[p].assets)
       IN /\ daily_stats' = call.daily_stats
          /\ frame' = [frame EXCEPT
                         ![p].entry_amounts = call.result,
                         ![p].results = [NoResults EXCEPT !.status = "executed"],
                         ![p].i = 1]
          /\ NoteRead(FirstReply(daily_stats, today, bal1, bal2))
  /\ pc' = [pc EXCEPT ![p] = "loop"]
  /\ UNCHANGED <<today, connected, stopSeen>>
  /\ UNCHANGED fn

EntryAmountOf(entry_amounts, asset) ==
  IF asset \in DOMAIN entry_amounts THEN entry_amounts[asset] ELSE 0

\* trading.py:98-104  the entry the 'except' branch appends.
ErrorEntry(asset) ==
  [asset |-> asset, direction |-> "NONE", amount |-> 0, expiration |-> 0,
   order_id |-> NoneVal, status |-> "error"]

\* trading.py:43-71 and 98-104  one loop iteration up to and including
\* record_trade, the ledger holding fewer than 'cap' records.  The iteration
\* ends here when the amount is too small, the analysis failed or the signal
\* is not strong ('continue'), or when a statement of the 'try' body raises
\* before the record is appended ('except').
ExecuteTrades_AssetWithin(p, cap) ==
  /\ pc[p] = "loop"
  /\ frame[p].i <= Len(frame[p].assets)
  /\ LET asset == frame[p].assets[frame[p].i]
         amount == EntryAmountOf(frame[p].entry_amounts, asset)
     IN IF amount < MIN_AMOUNT
          THEN /\ frame' = [frame EXCEPT ![p].i = @ + 1]
               /\ UNCHANGED <<daily_stats, pc>>
          ELSE \E analysis \in AnalyzeAsset(connected) :
                 IF ~analysis.ok \/ ~StrongSignal(analysis.overall)
                   THEN /\ frame' = [frame EXCEPT ![p].i = @ + 1]
                        /\ UNCHANGED <<daily_stats, pc>>
                   ELSE \/ /\ Len(daily_stats.trades) < cap
                           /\ daily_stats' = RecordTrade(daily_stats, asset, amount,
                                                         analysis.overall.signal,
                                                         "NONE", NoneVal)
                           /\ frame' = [frame EXCEPT ![p].overall = analysis.overall,
                                                     ![p].appended = @ + 1]
                           /\ pc' = [pc EXCEPT ![p] = "order"]
                        \/ /\ frame' = [frame EXCEPT
                                          ![p].results.trades =
                                             Append(@, ErrorEntry(asset)),
                                          ![p].i = @ + 1]
                           /\ UNCHANGED <<daily_stats, pc>>
  /\ UNCHANGED <<today, connected, firstRead, stopSeen>>
  /\ UNCHANGED fn

ExecuteTrades_Asset(p) == ExecuteTrades_AssetWithin(p, MaxTrades)

OrderIds == {1}

\* iqoption.py:65-82 place_binary_order: None when not connected, else what
\* api.buy returns (an order id), None if it raised.
PlaceBinaryOrder(conn) == IF conn THEN {Some(id) : id \in OrderIds} \cup {NoneVal} ELSE {NoneVal}

\* OrderStatus that reports every order as placed.
OrderStatus_alwaysplaced(result) == "placed"

\* trading.py:76-94  'if result:' chooses the tag of the report entry.
OrderStatus(result) == IF result.ok THEN "placed" ELSE "failed"

\* ExecuteTrades_Order that submits a rejected order again.
ExecuteTrades_Order_retry(p) ==
  /\ pc[p] = "order"
  /\ \E result \in PlaceBinaryOrder(connected) :
       LET asset == frame[p].assets[frame[p].i]
           amount == frame[p].entry_amounts[asset]
           direction == frame[p].overall.signal
           order == [asset |-> asset, amount |-> amount,
                     direction |-> direction, expiration |-> EXPIRATION_TIME]
           trade_result == [asset |-> asset, direction |-> direction,
                            amount |-> amount, expiration |-> EXPIRATION_TIME,
                            order_id |-> result,
                            status |-> OrderStatus(result)]
       IN IF result.ok \/ Len(frame[p].submitted) >= Len(frame[p].assets)
            THEN /\ frame' = [frame EXCEPT
                                ![p].submitted = IF connected THEN Append(@, order) ELSE @,
                                ![p].results.trades = Append(@, trade_result),
                                ![p].overall = NoOverall,
                                ![p].i = @ + 1]
                 /\ pc' = [pc EXCEPT ![p] = "loop"]
            ELSE /\ frame' = [frame EXCEPT
                                ![p].submitted = IF connected THEN Append(@, order) ELSE @]
                 /\ UNCHANGED pc
  /\ UNCHANGED <<today, connected, daily_stats, firstRead, stopSeen>>
  /\ UNCHANGED fn

\* trading.py:74-96  submit the order and append the outcome to the report.
ExecuteTrades_Order(p) ==
  /\ pc[p] = "order"
  /\ \E result \in PlaceBinaryOrder(connected) :
       LET asset == frame[p].assets[frame[p].i]
           amount == frame[p].entry_amounts[asset]
           direction == frame[p].overall.signal
           order == [asset |-> asset, amount |-> amount,
                     direction |-> direction, expiration |-> EXPIRATION_TIME]
           trade_result == [asset |-> asset, direction |-> direction,
                            amount |-> amount, expiration |-> EXPIRATION_TIME,
                            order_id |-> result,
                            status |-> OrderStatus(result)]
       IN frame' = [frame EXCEPT
                      ![p].submitted = IF connected THEN Append(@, order) ELSE @,
                      ![p].results.trades = Append(@, trade_result),
                      ![p].overall = NoOverall,
                      ![p].i = @ + 1]
  /\ pc' = [pc EXCEPT ![p] = "loop"]
  /\ UNCHANGED <<today, connected, daily_stats, firstRead, stopSeen>>
  /\ UNCHANGED fn

\* trading.py:106  return results
ExecuteTrades_Return(p) ==
  /\ pc[p] = "loop"
  /\ frame[p].i > Len(frame[p].assets)
  /\ pc' = [pc EXCEPT ![p] = "done"]
  /\ UNCHANGED <<today, connected, daily_stats, frame, firstRead, stopSeen>>
  /\ UNCHANGED fn

\* routes.py:86-88  the /trade handler sends the report and ends.
Trade_Respond(p) ==
  /\ pc[p] = "done"
  /\ pc' = [pc EXCEPT ![p] = "idle"]
  /\ frame' = [frame EXCEPT ![p] = EmptyFrame]
  /\ UNCHANGED <<today, connected, daily_stats, firstRead, stopSeen>>
  /\ UNCHANGED fn

(* --------------------------- check_trade_results ---------------------- *)
PendingTrades(ds) == {ds.trades[k] : k \in {j \in DOMAIN ds.trades :
                                              ds.trades[j].result = "NONE"}}

\* What the broker may list for the orders the ledger holds as pending: each
\* still open, or closed as a win paying the stake or as a loss costing it.
BrokerPositions(ds) ==
  {[status |-> st, win |-> w,
    profit |-> IF w THEN t.amount ELSE -t.amount,
    asset |-> t.asset, amount |-> t.amount, direction |-> t.direction] :
     t \in PendingTrades(ds), st \in {"open", "closed"}, w \in BOOLEAN}

\* iqoption.py:84-92 get_all_open_positions: None (here the empty list, the
\* caller treats both alike) when not connected, else the broker's list.
GetAllOpenPositions(conn, ds) ==
  IF conn
    THEN UNION {[1..n -> BrokerPositions(ds)] : n \in 0..MaxPositions}
    ELSE {<<>>}

ClosedPositions(positions) ==
  Cardinality({k \in DOMAIN positions : positions[k].status = "closed"})

\* trading.py:122-150  the loop over the positions, from position k on.
RECURSIVE RecordClosedPositions(_, _, _)
RecordClosedPositions(ds, positions, k) ==
  IF k > Len(positions)
    THEN ds
    ELSE LET position == positions[k]
             ds1 == IF position.status = "closed"
                      THEN RecordTrade(ds, position.asset, position.amount,
                                       position.direction,
                                       IF position.win THEN "WIN" ELSE "LOSS",
                                       Some(position.profit))
                      ELSE ds
         IN RecordClosedPositions(ds1, positions, k + 1)

\* trading.py:108-156  check_trade_results, the ledger ending with at most
\* 'cap' records.
CheckTradeResultsWithin(p, cap) ==
  /\ pc[p] = "idle"
  /\ \E positions \in GetAllOpenPositions(connected, daily_stats) :
       /\ Len(daily_stats.trades) + ClosedPositions(positions) <= cap
       /\ daily_stats' = RecordClosedPositions(daily_stats, positions, 1)
  /\ UNCHANGED <<today, connected, pc, frame, firstRead, stopSeen>>
  /\ UNCHANGED fn

(* ---------------------------- specification ---------------------------- *)
\* One request thread: handlers run one after the other.
Next ==
  \/ AdvanceDay
  \/ Connect(1)
  \/ GetDailyStats(1)
  \/ GetDailyStats_Return(1)
  \/ ExecuteTrades_Check(1)
  \/ ExecuteTrades_Stopped(1)
  \/ ExecuteTrades_Size(1)
  \/ ExecuteTrades_Asset(1)
  \/ ExecuteTrades_Order(1)
  \/ ExecuteTrades_Return(1)
  \/ Trade_Respond(1)

Spec == Init /\ [][Next]_vars

(* ------------------------- batches and closings ------------------------ *)
\* One thread, connected or not, on the start day or the day after, asked to
\* trade lists of up to MaxBatchAssets assets while the ledger holds no record
\* yet, and to check trade results.
InitBatch ==
  /\ today \in {StartDay, StartDay + 1}
  /\ connected \in BOOLEAN
  /\ daily_stats = InitialDailyStats(StartDay)
  /\ pc = [p \in ProcIds |-> "idle"]
  /\ frame = [p \in ProcIds |-> EmptyFrame]
  /\ firstRead = NoneVal
  /\ stopSeen = {}
  /\ fn_in = NoneVal
  /\ fn_out = [done |-> FALSE, val |-> NoneVal]

ExecuteBatch_Check ==
  /\ daily_stats.trades = <<>>
  /\ ExecuteTrades_CheckOf(1, BatchAssetLists)

ExecuteBatch_Asset == ExecuteTrades_AssetWithin(1, MaxBatchAssets)

CheckTradeResults == CheckTradeResultsWithin(1, MaxBatchAssets + MaxPositions)

NextBatch ==
  \/ ExecuteBatch_Check
  \/ ExecuteTrades_Stopped(1)
  \/ ExecuteTrades_Size(1)
  \/ ExecuteBatch_Asset
  \/ ExecuteTrades_Order(1)
  \/ ExecuteTrades_Return(1)
  \/ Trade_Respond(1)
  \/ CheckTradeResults

SpecBatch == InitBatch /\ [][NextBatch]_vars

(* ------------------------- overlapping requests ----------------------- *)
\* Two request threads inside execute_trades.  Nothing in the code orders
\* their accesses to daily_stats, so the statements of check_stop_conditions
\* (with initialize_daily_stats and update_balance inside it) are taken one
\* at a time, each balance query together with the test before it.

\* bank_management.py:70 and 27-28 or 51: the test of initial_balance, then
\* the balance query of initialize_daily_stats if the date is stale, else
\* that of update_balance.
CheckStop_Begin(p) ==
  /\ pc[p] = "idle"
  /\ \E assets \in AssetLists, bal \in GetBalance(connected) :
       frame' = [frame EXCEPT ![p] =
                   [EmptyFrame EXCEPT !.assets = assets, !.balance = bal]]
  /\ pc' = [pc EXCEPT ![p] =
             IF daily_stats.initial_balance = 0 /\ daily_stats.date # today
               THEN "init_store" ELSE "upd_current"]
  /\ UNCHANGED <<today, connected, daily_stats, firstRead, stopSeen>>
  /\ UNCHANGED fn

\* bank_management.py:30-41 and 51: the new ledger replaces the old one if
\* the query succeeded; then the balance query of update_balance.
InitializeDailyStats_Store(p) ==
  /\ pc[p] = "init_store"
  /\ daily_stats' = IF frame[p].balance.ok
                      THEN [date |-> today,
                            initial_balance |-> frame[p].balance.val,
                            current_balance |-> frame[p].balance.val,
                            profit_loss |-> 0, trades |-> <<>>, assets |-> <<>>]
                      ELSE daily_stats
  /\ \E bal \in GetBalance(connected) :
       frame' = [frame EXCEPT ![p].balance = bal]
  /\ pc' = [pc EXCEPT ![p] = "upd_current"]
  /\ UNCHANGED <<today, connected, firstRead, stopSeen>>
  /\ UNCHANGED fn

\* bank_management.py:53-54  daily_stats['current_balance'] = balance
UpdateBalance_StoreCurrent(p) ==
  /\ pc[p] = "upd_current"
  /\ daily_stats' = IF frame[p].balance.ok
                      THEN [daily_stats EXCEPT
                              !.current_balance = frame[p].balance.val]
                      ELSE daily_stats
  /\ pc' = [pc EXCEPT ![p] = "upd_pl"]
  /\ UNCHANGED <<today, connected, frame, firstRead, stopSeen>>
  /\ UNCHANGED fn

\* bank_management.py:55 and 76-104: profit_loss is stored from the local
\* balance and the ledger's initial_balance of this moment; then the stop
\* decision is taken from the ledger.
UpdateBalance_StorePL(p) ==
  /\ pc[p] = "upd_pl"
  /\ LET ds == IF frame[p].balance.ok
                 THEN [daily_stats EXCEPT
                         !.profit_loss = frame[p].balance.val
                                           - daily_stats.initial_balance]
                 ELSE daily_stats
         sc == StopDecision(ds)
     IN /\ daily_stats' = ds
        /\ frame' = [frame EXCEPT ![p].stop_check = sc,
                                  ![p].balance = NoneVal]
        /\ stopSeen' = IF sc.stop_triggered
                         THEN stopSeen \cup {ds.date}
                         ELSE stopSeen
  /\ pc' = [pc EXCEPT ![p] = "checked"]
  /\ UNCHANGED <<today, connected, firstRead>>
  /\ UNCHANGED fn

\* The day after the start, connected, the ledger still the one of the start.
InitConc ==
  /\ today = StartDay + 1
  /\ connected = TRUE
  /\ daily_stats = InitialDailyStats(StartDay)
  /\ pc = [p \in ProcIds |-> "idle"]
  /\ frame = [p \in ProcIds |-> EmptyFrame]
  /\ firstRead = NoneVal
  /\ stopSeen = {}
  /\ fn_in = NoneVal
  /\ fn_out = [done |-> FALSE, val |-> NoneVal]

NextConc ==
  \E p \in ProcIds :
    \/ CheckStop_Begin(p)
    \/ InitializeDailyStats_Store(p)
    \/ UpdateBalance_StoreCurrent(p)
    \/ UpdateBalance_StorePL(p)
    \/ ExecuteTrades_Stopped(p)
    \/ ExecuteTrades_Size(p)
    \/ ExecuteTrades_Asset(p)
    \/ ExecuteTrades_Order(p)
    \/ ExecuteTrades_Return(p)
    \/ Trade_Respond(p)

SpecConc == InitConc /\ [][NextConc]_vars

(* ------------------- single-function specifications -------------------- *)
\* Each starts from a ledger and an argument drawn from a bounded set and
\* applies one function of the program once.
Quiet ==
  /\ today = StartDay
  /\ pc = [p \in ProcIds |-> "idle"]
  /\ frame = [p \in ProcIds |-> EmptyFrame]
  /\ firstRead = NoneVal
  /\ stopSeen = {}
  /\ fn_out = [done |-> FALSE, val |-> NoneVal]

OpenedLedger(opening, current) ==
  [InitialDailyStats(StartDay) EXCEPT !.initial_balance = opening,
                                      !.current_balance = current,
                                      !.profit_loss = current - opening]

\* check_stop_conditions on a ledger opened at any balance, the broker
\* reporting any balance.
StopBalances ==
  {0, 100, 58000, 59999, 60000, 60001, 100000, 199999, 200000, 200001}

InitStop ==
  /\ Quiet
  /\ connected = TRUE
  /\ \E opening \in StopBalances : daily_stats = OpenedLedger(opening, opening)
  /\ fn_in \in {Some(b) : b \in StopBalances}

ApplyCheckStop ==
  /\ ~fn_out.done
  /\ LET call == CheckStopConditions(daily_stats, today, fn_in, fn_in)
     IN /\ daily_stats' = call.daily_stats
        /\ fn_out' = [done |-> TRUE, val |-> call.result]
  /\ UNCHANGED <<today, connected, pc, frame, firstRead, stopSeen, fn_in>>

SpecStop == InitStop /\ [][ApplyCheckStop]_vars

\* analyze_asset on candles giving any four indicator signals.
InitFuse ==
  /\ Quiet
  /\ connected = TRUE
  /\ daily_stats = InitialDailyStats(StartDay)
  /\ fn_in \in [IndicatorKeys -> SignalKinds]

ApplyAnalysis ==
  /\ ~fn_out.done
  /\ fn_out' = [done |-> TRUE, val |-> Analysis(fn_in)]
  /\ UNCHANGED <<today, connected, daily_stats, pc, frame, firstRead,
                 stopSeen, fn_in>>

SpecFuse == InitFuse /\ [][ApplyAnalysis]_vars

\* calculate_entry_amount for any asset list, the balance query failing or
\* returning any of these balances.  The balances are whole cents whose
\* shares never fall exactly between two cents, where round() would follow
\* the binary value of the float.
MaxSizeAssets == 3
SizeAssetLists == UNION {[1..n -> Assets] : n \in 0..MaxSizeAssets}
SizeBalances == {0, 300, 500, 4500, 58000, 100000, 200000}

InitSize ==
  /\ Quiet
  /\ daily_stats = OpenedLedger(100000, 100000)
  /\ fn_in \in [assets : SizeAssetLists,
                bal : {NoneVal} \cup {Some(b) : b \in SizeBalances}]
  /\ connected = fn_in.bal.ok

ApplyCalculateEntryAmount ==
  /\ ~fn_out.done
  /\ LET call == CalculateEntryAmount(daily_stats, today, fn_in.bal, fn_in.bal,
                                      fn_in.assets)
     IN /\ daily_stats' = call.daily_stats
        /\ fn_out' = [done |-> TRUE, val |-> call.result]
  /\ UNCHANGED <<today, connected, pc, frame, firstRead, stopSeen, fn_in>>

SpecSize == InitSize /\ [][ApplyCalculateEntryAmount]_vars

\* initialize_daily_stats followed by update_balance, the broker giving both
\* the same reply, on a ledger of today or of an earlier day, opened or not,
\* with or without a record.
RollLedgers ==
  {[date |-> d, initial_balance |-> o, current_balance |-> c,
    profit_loss |-> c - o, trades |-> t,
    assets |-> IF t = <<>> THEN <<>> ELSE ("EURUSD" :> NewAssetStats)] :
     d \in 0..MaxDay, o \in {0, 100000}, c \in {0, 100000, 200000},
     t \in {<<>>} \cup
           {<<[asset |-> "EURUSD", amount |-> 20000, direction |-> dir,
               result |-> "NONE", profit_loss |-> NoneVal]>> :
              dir \in {"CALL", "PUT"}}}

InitRoll ==
  /\ pc = [p \in ProcIds |-> "idle"]
  /\ frame = [p \in ProcIds |-> EmptyFrame]
  /\ firstRead = NoneVal
  /\ stopSeen = {}
  /\ fn_out = [done |-> FALSE, val |-> NoneVal]
  /\ daily_stats \in RollLedgers
  /\ today \in daily_stats.date..MaxDay
  /\ fn_in \in [before : {daily_stats}, bal : GetBalance(TRUE) \cup GetBalance(FALSE)]
  /\ connected = fn_in.bal.ok

\* The ledger is left as initialize_daily_stats leaves it; the result is the
\* ledger update_balance then returns.
ApplyRollover ==
  /\ ~fn_out.done
  /\ LET rolled == InitializeDailyStats(daily_stats, today, fn_in.bal)
     IN /\ daily_stats' = rolled
        /\ fn_out' = [done |-> TRUE, val |-> UpdateBalance(rolled, fn_in.bal)]
  /\ UNCHANGED <<today, connected, pc, frame, firstRead, stopSeen, fn_in>>

SpecRoll == InitRoll /\ [][ApplyRollover]_vars

\* record_trade, pending or with a result, on a ledger that holds no record,
\* a pending one, or a pending one and its closing.
RecordLedgers ==
  LET l0 == {OpenedLedger(o, c) : o \in {0, 100000}, c \in {100000, 200000}}
      l1 == {RecordTrade(l, "EURUSD", 20000, "CALL", "NONE", NoneVal) : l \in l0}
      l2 == {RecordTrade(l, "EURUSD", 20000, "CALL", "WIN", Some(20000)) :
               l \in l1}
  IN l0 \cup l1 \cup l2

RecordArguments ==
  {[asset |-> a, amount |-> m, direction |-> dir, result |-> res.result,
    profit_loss |-> IF res.result = "NONE" THEN NoneVal
                    ELSE Some(res.sign * m)] :
     a \in Assets, m \in {10000, 20000}, dir \in {"CALL", "PUT"},
     res \in {[result |-> "NONE", sign |-> 0], [result |-> "WIN", sign |-> 1],
              [result |-> "LOSS", sign |-> -1], [result |-> "LOSS", sign |-> 0]}}

InitRecord ==
  /\ Quiet
  /\ connected = TRUE
  /\ daily_stats \in RecordLedgers
  /\ fn_in \in [before : {daily_stats}, args : RecordArguments]

ApplyRecordTrade ==
  /\ ~fn_out.done
  /\ LET a == fn_in.args
     IN daily_stats' = RecordTrade(daily_stats, a.asset, a.amount, a.direction,
                                   a.result, a.profit_loss)
  /\ fn_out' = [done |-> TRUE, val |-> NoneVal]
  /\ UNCHANGED <<today, connected, pc, frame, firstRead, stopSeen, fn_in>>

SpecRecord == InitRecord /\ [][ApplyRecordTrade]_vars

\* calculate_rsi on close prices that move by 'drift' per bar up to the last
\* two bars, which move by 'd1' and 'd2'.
ClosePrices(n, drift, d1, d2) ==
  [k \in 1..n |->
     100 + drift * (IF k <= n - 2 THEN k - 1 ELSE Max(n - 3, 0))
         + (IF k >= n - 1 /\ k > 1 /\ n > 2 THEN d1 ELSE 0)
         + (IF k = n /\ k > 1 THEN d2 ELSE 0)]

RsiInputs ==
  {ClosePrices(n, drift, d1, d2) :
     n \in 1..MaxRsiBars, drift \in {-1, 0, 1}, d1 \in {-1, 0, 1},
     d2 \in {-1, 0, 1}}

InitRsi ==
  /\ Quiet
  /\ connected = TRUE
  /\ daily_stats = InitialDailyStats(StartDay)
  /\ fn_in \in RsiInputs

ApplyCalculateRsi ==
  /\ ~fn_out.done
  /\ fn_out' = [done |-> TRUE, val |-> CalculateRsi(fn_in)]
  /\ UNCHANGED <<today, connected, daily_stats, pc, frame, firstRead,
                 stopSeen, fn_in>>

SpecRsi == InitRsi /\ [][ApplyCalculateRsi]_vars

\* analyze_volume on 1..MaxVolumeBars bars of equal volume up to the latest
\* bar, which has any of three volumes and closes below, at or above its open.
VolumeInputs ==
  {[volume |-> [k \in 1..n |-> IF k = n THEN last ELSE v],
    open |-> 100, close |-> c] :
     n \in 1..MaxVolumeBars, v \in {10, 20}, last \in {10, 20, 40},
     c \in {99, 100, 101}}

InitVolume ==
  /\ Quiet
  /\ connected = TRUE
  /\ daily_stats = InitialDailyStats(StartDay)
  /\ fn_in \in VolumeInputs

ApplyAnalyzeVolume ==
  /\ ~fn_out.done
  /\ fn_out' = [done |-> TRUE,
                val |-> AnalyzeVolume(fn_in.volume, fn_in.open, fn_in.close)]
  /\ UNCHANGED <<today, connected, daily_stats, pc, frame, firstRead,
                 stopSeen, fn_in>>

SpecVolume == InitVolume /\ [][ApplyAnalyzeVolume]_vars

\* detect_candlestick_patterns on 1..MaxPatternBars bars.  A bar opens and
\* closes at one of four prices and has shadows of 0, 1 or 3 ticks below and
\* 0 or 1 above; the bars before the last two repeat the one before last.
PatternPrices == {107, 108, 110, 111}

PatternBars ==
  {[open |-> o, close |-> c, low |-> Min(o, c) - ls, high |-> Max(o, c) + us] :
     o \in PatternPrices, c \in PatternPrices, ls \in {0, 1, 3}, us \in {0, 1}}

PatternInputs ==
  {<<latest>> : latest \in PatternBars} \cup
  {[k \in 1..n |-> IF k = n THEN latest ELSE prev] :
     n \in 2..MaxPatternBars, prev \in PatternBars, latest \in PatternBars}

InitPattern ==
  /\ Quiet
  /\ connected = TRUE
  /\ daily_stats = InitialDailyStats(StartDay)
  /\ fn_in \in PatternInputs

ApplyDetectPatterns ==
  /\ ~fn_out.done
  /\ fn_out' = [done |-> TRUE, val |-> DetectCandlestickPatterns(fn_in)]
  /\ UNCHANGED <<today, connected, daily_stats, pc, frame, firstRead,
                 stopSeen, fn_in>>

SpecPattern == InitPattern /\ [][ApplyDetectPatterns]_vars

(* ================================ claims =============================== *)

\* C1: an execute_trades call whose stop check reports STOP_LOSS or STOP_GAIN
\* never reaches sizing or the asset loop, appends no trade record, submits no
\* order, and returns status 'stopped' with the reason and the percentage of
\* the stop check.
C1_StoppedReport ==
  \A p \in ProcIds :
    frame[p].stop_check.stop_triggered =>
      /\ pc[p] \in {"checked", "done"}
      /\ frame[p].appended = 0
      /\ frame[p].submitted = <<>>
      /\ frame[p].stop_check.reason \in {"STOP_LOSS", "STOP_GAIN"}
      /\ pc[p] = "done" =>
           /\ frame[p].results.status = "stopped"
           /\ frame[p].results.reason = frame[p].stop_check.reason
           /\ frame[p].results.percentage = frame[p].stop_check.percentage
           /\ frame[p].results.trades = <<>>

\* A call that was asked to trade an asset, on a ledger already holding a
\* record, and returned 'stopped' on a stop-loss.
C1_Witness ==
  /\ pc[1] = "done"
  /\ frame[1].stop_check.reason = "STOP_LOSS"
  /\ frame[1].results.status = "stopped"
  /\ frame[1].assets = <<"EURUSD">>
  /\ Len(daily_stats.trades) = 1

\* C2: once a stop has been observed today for the ledger's trading day, no
\* execute_trades call submits an order for the rest of that day.
C2_StickyStop ==
  [][\A p \in ProcIds :
       Len(frame'[p].submitted) > Len(frame[p].submitted)
         => daily_stats.date \notin stopSeen]_vars

\* C3: in every state the ledger satisfies
\* current_balance - initial_balance = profit_loss.
C3_LedgerInvariant ==
  daily_stats.current_balance - daily_stats.initial_balance
    = daily_stats.profit_loss

\* A stop check that ran while the balance query failed, on a ledger that
\* had been opened at 2000.00 and refreshed to 1000.00.
C3_Witness ==
  /\ pc[1] = "checked"
  /\ ~connected
  /\ daily_stats.initial_balance = 200000
  /\ daily_stats.current_balance = 100000
  /\ daily_stats.profit_loss = -100000

\* C4: a stop check, a sizing or a stats read that runs when the date has
\* moved past the ledger's trading day, with the balance query succeeding,
\* leaves a ledger of today: its date is today, and it holds no record of
\* the earlier day.
LedgerRead(p) ==
  \/ pc[p] = "idle" /\ pc'[p] \in {"checked", "stats"}
  \/ pc[p] = "checked" /\ pc'[p] = "loop"

C4_LazyRollover ==
  [][\A p \in ProcIds :
       (LedgerRead(p) /\ daily_stats.date # today /\ connected)
         => /\ daily_stats'.date = today
            /\ daily_stats'.trades = <<>>
            /\ daily_stats'.initial_balance \in Balances]_vars

\* C5: on the day the process started, once a balance query has succeeded the
\* ledger's initial_balance is the balance the first such query returned.
C5_FirstReadOpens ==
  (today = StartDay /\ firstRead.ok)
    => daily_stats.initial_balance = firstRead.val

\* C6: check_stop_conditions returns percentage = profit_loss /
\* initial_balance * 100 (0 for an initial balance of 0), STOP_LOSS iff the
\* percentage is <= -40, otherwise STOP_GAIN iff it is >= 100, otherwise no
\* stop; a ledger opened at 1000.00 with balance 580.00 gives STOP_LOSS.
C6_StopDecision ==
  fn_out.done =>
    LET o == daily_stats.initial_balance
        pl == daily_stats.profit_loss
        r == fn_out.val
        loss == o # 0 /\ pl * 100 <= -(DAILY_STOP_LOSS * o)
        gain == o # 0 /\ pl * 100 >= DAILY_STOP_GAIN * o
    IN /\ r.percentage = IF o = 0 THEN Rat(0, 1) ELSE Rat(pl * 100, o)
       /\ r.reason = "STOP_LOSS" <=> loss
       /\ r.reason = "STOP_GAIN" <=> (~loss /\ gain)
       /\ r.stop_triggered <=> (loss \/ gain)
       /\ (o = 100000 /\ daily_stats.current_balance = 58000)
            => r.reason = "STOP_LOSS"

C6_Witness ==
  /\ fn_out.done
  /\ daily_stats.initial_balance = 100000
  /\ daily_stats.current_balance = 58000
  /\ fn_out.val.reason = "STOP_LOSS"
  /\ fn_out.val.percentage = Rat(-4200000, 100000)

\* C7: an order is submitted only for a CALL or PUT whose winning count is at
\* least 60% of the four indicators evaluated (so never on two of four).
C7_OrderNeedsStrength ==
  [][\A p \in ProcIds :
       Len(frame'[p].submitted) > Len(frame[p].submitted)
         => LET o == frame[p].overall IN
            /\ o.signal \in {"CALL", "PUT"}
            /\ 100 * Max(o.call_count, o.put_count)
                 >= STRENGTH_THRESHOLD * Cardinality(IndicatorKeys)]_vars

\* C8: for every assignment of signals to the four indicators the fused
\* signal is CALL if c > p, PUT if p > c, else NEUTRAL, and the strength is
\* 100 * max(c, p) / 4 when not NEUTRAL and 0 otherwise; CALL, CALL, PUT,
\* NEUTRAL fuses to CALL with strength 50.
C8_PluralityVote ==
  fn_out.done =>
    LET c == CountSignals(fn_in, "CALL")
        q == CountSignals(fn_in, "PUT")
        o == fn_out.val.overall
        direction == IF c > q THEN "CALL" ELSE IF q > c THEN "PUT" ELSE "NEUTRAL"
    IN /\ o.signal = direction
       /\ o.call_count = c
       /\ o.put_count = q
       /\ direction # "NEUTRAL" => o.strength.num * 4 = 100 * Max(c, q) * o.strength.den
       /\ direction = "NEUTRAL" => o.strength.num = 0
       /\ (c = 2 /\ q = 1) => (o.signal = "CALL" /\ o.strength.num = 50 * o.strength.den)

\* C9: the fused strength handed on by an analysis lies in [0, 100].
C9_StrengthRange ==
  \A p \in ProcIds :
    /\ RatGE(frame[p].overall.strength, 0)
    /\ RatLE(frame[p].overall.strength, 100)

\* C10 as stated: every requested asset gets the same amount, the share
\* current_balance * 0.20 / count(assets) cut down to whole cents and raised
\* to 1.00 if below; no assets give an empty mapping; two assets on a balance
\* of 1000.00 get 100.00 each.
C10_SizeFloor ==
  fn_out.done =>
    LET assets == fn_in.assets
        n == Len(assets)
        amounts == fn_out.val
    IN /\ DOMAIN amounts = Range(assets)
       /\ \A a \in DOMAIN amounts :
            amounts[a] = Max(MIN_AMOUNT,
                             (daily_stats.current_balance * MAX_BANK_PERCENTAGE)
                               \div (100 * n))
       /\ (n = 2 /\ daily_stats.current_balance = 100000)
            => \A a \in DOMAIN amounts : amounts[a] = 10000

\* C10, amended: the share is rounded to the nearest cent (not cut down)
\* before it is raised to 1.00; the rest as stated.
C10_SizeRound ==
  fn_out.done =>
    LET assets == fn_in.assets
        n == Len(assets)
        amounts == fn_out.val
        num == daily_stats.current_balance * MAX_BANK_PERCENTAGE
        den == 100 * n
    IN /\ DOMAIN amounts = Range(assets)
       /\ \A a \in DOMAIN amounts :
            \/ /\ amounts[a] >= MIN_AMOUNT
               /\ 2 * Abs(den * amounts[a] - num) <= den
            \/ /\ amounts[a] = MIN_AMOUNT
               /\ 2 * num < (2 * MIN_AMOUNT - 1) * den
       /\ (n = 2 /\ daily_stats.current_balance = 100000)
            => \A a \in DOMAIN amounts : amounts[a] = 10000

\* Three assets on a balance of 1000.00: the share 66.666... becomes 66.67.
C10_Witness ==
  /\ fn_out.done
  /\ Len(fn_in.assets) = 3
  /\ daily_stats.current_balance = 100000
  /\ \A a \in DOMAIN fn_out.val : fn_out.val[a] = 6667

\* C11: the report of a call that was not stopped holds one entry for every
\* asset of the input, in input order, each tagged placed, failed, skipped or
\* error.
C11_OneEntryPerAsset ==
  \A p \in ProcIds :
    (pc[p] = "done" /\ frame[p].results.status = "executed") =>
      /\ Len(frame[p].results.trades) = Len(frame[p].assets)
      /\ \A k \in DOMAIN frame[p].results.trades :
           /\ frame[p].results.trades[k].asset = frame[p].assets[k]
           /\ frame[p].results.trades[k].status
                \in {"placed", "failed", "skipped", "error"}

\* C13: one asset's failure does not end the batch.  Every step of the asset
\* loop either moves on to the next asset (after a skip, an error entry, or an
\* order whose entry is tagged placed with the order id when the gateway
\* accepted it and failed when it did not) or goes on to submit the recorded
\* order; the call returns its report only after the last asset.
C13_BatchContinues ==
  [][\A p \in ProcIds :
       (pc[p] \in {"loop", "order"} /\ <<pc[p], frame[p]>>' # <<pc[p], frame[p]>>)
         => LET f == frame[p]
                g == frame'[p]
                n == Len(g.results.trades)
            IN \/ /\ pc[p] = "loop" /\ pc'[p] = "loop"
                  /\ f.i <= Len(f.assets) /\ g.i = f.i + 1
                  /\ \/ g.results = f.results
                     \/ /\ n = Len(f.results.trades) + 1
                        /\ g.results.trades[n].status = "error"
                        /\ g.results.trades[n].asset = f.assets[f.i]
               \/ /\ pc[p] = "loop" /\ pc'[p] = "order"
                  /\ g.i = f.i /\ g.results = f.results
               \/ /\ pc[p] = "order" /\ pc'[p] = "loop"
                  /\ g.i = f.i + 1
                  /\ n = Len(f.results.trades) + 1
                  /\ g.results.trades[n].asset = f.assets[f.i]
                  /\ g.results.trades[n].status \in {"placed", "failed"}
                  /\ g.results.trades[n].status = "placed"
                       <=> g.results.trades[n].order_id.ok
               \/ /\ pc[p] = "loop" /\ pc'[p] = "done"
                  /\ f.i = Len(f.assets) + 1
                  /\ g = f /\ f.results.status = "executed"]_vars

\* A returned report of two assets: the first order rejected, the second
\* accepted.
C13_Witness ==
  /\ pc[1] = "done"
  /\ Len(frame[1].assets) = 2
  /\ Len(frame[1].results.trades) = 2
  /\ frame[1].results.trades[1].status = "failed"
  /\ frame[1].results.trades[2].status = "placed"
  /\ frame[1].results.trades[2].order_id.ok

\* C14: when an order is given to the gateway, the ledger already holds,
\* among the records this call appended, a pending record (no result, no
\* profit_loss) with the order's asset, amount and direction.
C14_RecordBeforeSubmit ==
  [][\A p \in ProcIds :
       Len(frame'[p].submitted) > Len(frame[p].submitted)
         => LET order == frame'[p].submitted[Len(frame'[p].submitted)]
                n == Len(daily_stats.trades)
            IN /\ frame[p].appended >= Len(frame'[p].submitted)
               /\ \E k \in DOMAIN daily_stats.trades :
                    /\ k > n - frame[p].appended
                    /\ daily_stats.trades[k] =
                         [asset |-> order.asset, amount |-> order.amount,
                          direction |-> order.direction, result |-> "NONE",
                          profit_loss |-> NoneVal]]_vars

\* A call that submitted two orders, the ledger holding both records.
C14_Witness ==
  /\ pc[1] = "done"
  /\ Len(frame[1].submitted) = 2
  /\ frame[1].appended = 2
  /\ Len(daily_stats.trades) = 2

\* C15: within a trading day no record is removed or reordered, and every
\* record that is appended is a pending one: closing a position appends no
\* further record.
C15_RecordLifecycle ==
  [][daily_stats'.date = daily_stats.date
       => LET old == daily_stats.trades
              new == daily_stats'.trades
          IN /\ Len(new) >= Len(old)
             /\ \A k \in DOMAIN old :
                  /\ new[k].asset = old[k].asset
                  /\ new[k].amount = old[k].amount
                  /\ new[k].direction = old[k].direction
             /\ \A k \in (Len(old) + 1)..Len(new) : new[k].result = "NONE"]_vars

\* C16: the ledger sections of two overlapping execute_trades calls (from
\* the stop check to the last record) never overlap: while one call is
\* between its stop check and the end of its asset loop, the other is not.
InLedgerSection(p) ==
  pc[p] \in {"init_store", "upd_current", "upd_pl", "checked", "loop", "order"}

C16_Serialized ==
  \A p, q \in ProcIds : (p # q /\ InLedgerSection(p)) => ~InLedgerSection(q)

\* C17: with two overlapping calls, whenever no thread is inside
\* initialize_daily_stats or update_balance the ledger satisfies
\* current_balance - initial_balance = profit_loss.
RefreshInProgress(p) == pc[p] \in {"init_store", "upd_current", "upd_pl"}

C17_LedgerInvariantConc ==
  (\A p \in ProcIds : ~RefreshInProgress(p))
    => daily_stats.current_balance - daily_stats.initial_balance
         = daily_stats.profit_loss

\* C18: initialize_daily_stats on a ledger of an earlier day, the balance
\* query returning b, leaves date = today, initial_balance = current_balance
\* = b, profit_loss = 0 and no trades or asset statistics, and an
\* update_balance with the same balance keeps initial_balance = b and
\* profit_loss = 0; on a ledger of today it leaves the ledger as it was.
C18_RolloverEffect ==
  fn_out.done =>
    LET before == fn_in.before
        b == fn_in.bal
    IN /\ (before.date # today /\ b.ok) =>
            /\ daily_stats = [date |-> today, initial_balance |-> b.val,
                              current_balance |-> b.val, profit_loss |-> 0,
                              trades |-> <<>>, assets |-> <<>>]
            /\ fn_out.val.initial_balance = b.val
            /\ fn_out.val.current_balance = b.val
            /\ fn_out.val.profit_loss = 0
            /\ fn_out.val.date = today
       /\ before.date = today => daily_stats = before

\* A ledger of day 0 holding a record, rolled over on day 1 at 2000.00.
C18_Witness ==
  /\ fn_out.done
  /\ fn_in.before.date = 0
  /\ today = 1
  /\ fn_in.before.trades # <<>>
  /\ fn_in.before.initial_balance = 100000
  /\ daily_stats.trades = <<>>
  /\ daily_stats.initial_balance = 200000
  /\ fn_out.val.profit_loss = 0

\* C19: whenever the average loss over the last RSI_PERIOD bars is 0, on a
\* rising series and on a flat one alike, calculate_rsi reports the value 100,
\* never NaN, and the signal PUT.
C19_RsiNoLosses ==
  (fn_out.done /\ Len(fn_in) >= RSI_PERIOD
     /\ SumSeq(Loss(fn_in), Len(fn_in) - RSI_PERIOD + 1, Len(fn_in)) = 0)
    => /\ ~fn_out.val.value.nan
       /\ fn_out.val.value.num = 100 * fn_out.val.value.den
       /\ fn_out.val.signal = "PUT"

\* C20 as stated: with fewer than 10 bars analyze_volume reports avg_volume
\* as the mean of the volumes of all bars, and volume_ratio as the latest
\* volume divided by that mean.
C20_VolumeFewBars ==
  (fn_out.done /\ Len(fn_in.volume) < VOLUME_WINDOW)
    => LET n == Len(fn_in.volume)
           total == SumSeq(fn_in.volume, 1, n)
           r == fn_out.val
       IN /\ r.avg_volume.num * n = total * r.avg_volume.den
          /\ r.volume_ratio.num * total
               = fn_in.volume[n] * n * r.volume_ratio.den

\* C20, amended: with fewer than 10 bars analyze_volume has no average: it
\* reports avg_volume 0 and volume_ratio 1, and so the signal NEUTRAL; from
\* 10 bars on avg_volume is the mean of the last 10 volumes and volume_ratio
\* the latest volume divided by it.
C20_VolumeFallback ==
  fn_out.done =>
    LET n == Len(fn_in.volume)
        r == fn_out.val
        last10 == SumSeq(fn_in.volume, n - VOLUME_WINDOW + 1, n)
    IN /\ r.volume = fn_in.volume[n]
       /\ n < VOLUME_WINDOW =>
            /\ r.avg_volume.num = 0
            /\ r.volume_ratio.num = r.volume_ratio.den
            /\ r.signal = "NEUTRAL"
       /\ n >= VOLUME_WINDOW =>
            /\ r.avg_volume.num * VOLUME_WINDOW = last10 * r.avg_volume.den
            /\ r.volume_ratio.num * last10
                 = fn_in.volume[n] * VOLUME_WINDOW * r.volume_ratio.den

\* Three bars, the latest with four times the volume of the others and
\* closing above its open: no average, ratio 1, NEUTRAL.
C20_Witness ==
  /\ fn_out.done
  /\ fn_in.volume = <<10, 10, 40>>
  /\ fn_in.close > fn_in.open
  /\ fn_out.val.avg_volume = Rat(0, 1)
  /\ fn_out.val.volume_ratio = Rat(1, 1)
  /\ fn_out.val.signal = "NEUTRAL"

\* C21: when the previous bar is bearish, the latest bar bullish, the latest
\* open below the previous close and the latest close above the previous
\* open, bullish_engulfing is true and the signal is CALL; in general the
\* signal is CALL if bullish engulfing or (hammer and the latest bar
\* bullish), else PUT if bearish engulfing or (hammer and the latest bar
\* bearish), else NEUTRAL; a bar with a zero body is never a hammer.
C21_PatternSignal ==
  fn_out.done =>
    LET n == Len(fn_in)
        cur == fn_in[n]
        r == fn_out.val
        bullish == cur.close > cur.open
        bearish == cur.close < cur.open
    IN /\ (n >= 2 /\ fn_in[n - 1].close < fn_in[n - 1].open /\ bullish
            /\ cur.open < fn_in[n - 1].close /\ cur.close > fn_in[n - 1].open)
            => (r.bullish_engulfing /\ r.signal = "CALL")
       /\ r.signal = IF r.bullish_engulfing \/ (r.hammer /\ bullish)
                       THEN "CALL"
                       ELSE IF r.bearish_engulfing \/ (r.hammer /\ bearish)
                         THEN "PUT"
                         ELSE "NEUTRAL"
       /\ cur.close = cur.open => ~r.hammer

\* The pair 110 -> 108 then 107 -> 111: bullish engulfing, CALL.
C21_Witness ==
  /\ fn_out.done
  /\ Len(fn_in) = 2
  /\ fn_in[1].open = 110 /\ fn_in[1].close = 108
  /\ fn_in[2].open = 107 /\ fn_in[2].close = 111
  /\ fn_out.val.bullish_engulfing
  /\ fn_out.val.signal = "CALL"

\* C22: record_trade leaves the ledger's date, initial_balance,
\* current_balance and profit_loss as they were and appends exactly one
\* record.  Without a result the record is pending and no counter or
\* profit_loss of any asset changes (a new asset gets a zeroed entry); with a
\* result the asset's trades and exactly one of its wins / losses go up by
\* one, its profit_loss grows by the trade's profit_loss, and every other
\* asset's statistics stay as they were.
StatsOf(ds, asset) ==
  IF asset \in DOMAIN ds.assets THEN ds.assets[asset] ELSE NewAssetStats

C22_RecordTradeFrame ==
  fn_out.done =>
    LET before == fn_in.before
        a == fn_in.args
        old == StatsOf(before, a.asset)
        new == StatsOf(daily_stats, a.asset)
        n == Len(daily_stats.trades)
    IN /\ daily_stats.date = before.date
       /\ daily_stats.initial_balance = before.initial_balance
       /\ daily_stats.current_balance = before.current_balance
       /\ daily_stats.profit_loss = before.profit_loss
       /\ n = Len(before.trades) + 1
       /\ \A k \in DOMAIN before.trades : daily_stats.trades[k] = before.trades[k]
       /\ daily_stats.trades[n] =
            [asset |-> a.asset, amount |-> a.amount, direction |-> a.direction,
             result |-> a.result, profit_loss |-> a.profit_loss]
       /\ DOMAIN daily_stats.assets = DOMAIN before.assets \cup {a.asset}
       /\ \A b \in DOMAIN before.assets \ {a.asset} :
            daily_stats.assets[b] = before.assets[b]
       /\ a.result = "NONE" => new = old
       /\ a.result # "NONE" =>
            /\ new.trades = old.trades + 1
            /\ new.wins + new.losses = old.wins + old.losses + 1
            /\ new.wins = old.wins + (IF a.result = "WIN" THEN 1 ELSE 0)
            /\ new.losses >= old.losses
            /\ new.profit_loss = old.profit_loss + a.profit_loss.val

\* A loss of 100.00 on GBPUSD recorded on a ledger that already holds a
\* pending and a won EURUSD trade.
C22_Witness ==
  /\ fn_out.done
  /\ Len(fn_in.before.trades) = 2
  /\ fn_in.args.asset = "GBPUSD"
  /\ fn_in.args.result = "LOSS"
  /\ fn_in.args.profit_loss = Some(-10000)
  /\ daily_stats.assets["GBPUSD"] =
       [trades |-> 1, wins |-> 0, losses |-> 1, profit_loss |-> -10000]
  /\ daily_stats.assets["EURUSD"] =
       [trades |-> 1, wins |-> 1, losses |-> 0, profit_loss |-> 20000]
  /\ daily_stats.profit_loss = fn_in.before.profit_loss

\* C23: for every non-empty asset list and every balance the amounts
\* calculate_entry_amount returns add up to at most current_balance * 0.20.
RECURSIVE SumAmounts(_, _)
SumAmounts(amounts, keys) ==
  IF keys = {}
    THEN 0
    ELSE LET a == CHOOSE x \in keys : TRUE
         IN amounts[a] + SumAmounts(amounts, keys \ {a})

C23_TotalRisk ==
  (fn_out.done /\ Len(fn_in.assets) > 0)
    => 100 * SumAmounts(fn_out.val, DOMAIN fn_out.val)
         <= daily_stats.current_balance * MAX_BANK_PERCENTAGE

\* C24: the balance a call's sizing works from is the balance its stop check
\* was evaluated on: sizing leaves the ledger's current_balance as the stop
\* check left it.
C24_SameBalance ==
  [][\A p \in ProcIds :
       (pc[p] = "checked" /\ pc'[p] = "loop")
         => daily_stats'.current_balance = daily_stats.current_balance]_vars

\* C25: a call evaluates the stop condition once, before the first asset,
\* and submits at most one order per asset of its input, in input order: an
\* order is submitted only for the asset the loop is at, the loop then moves
\* on whatever the gateway answered, and the orders submitted never outnumber
\* the assets gone through.
C25_NoRetry ==
  [][\A p \in ProcIds :
       LET f == frame[p]
           g == frame'[p]
       IN /\ (g.submitted # f.submitted /\ pc'[p] # "idle") =>
               /\ pc[p] = "order" /\ pc'[p] = "loop"
               /\ g.submitted = Append(f.submitted, g.submitted[Len(g.submitted)])
               /\ g.submitted[Len(g.submitted)].asset = f.assets[f.i]
               /\ g.i = f.i + 1
               /\ Len(g.submitted) <= f.i
               /\ Len(g.submitted) <= Len(f.assets)
          /\ g.stop_check # f.stop_check => (pc[p] = "idle" \/ pc'[p] = "idle")
          /\ pc[p] \in {"loop", "order"} => g.stop_check = f.stop_check]_vars

\* A returned report of one asset whose order the gateway rejected: one
\* submission, one failed entry.
C25_Witness ==
  /\ pc[1] = "done"
  /\ frame[1].assets = <<"EURUSD">>
  /\ Len(frame[1].submitted) = 1
  /\ Len(frame[1].results.trades) = 1
  /\ frame[1].results.trades[1].status = "failed"
  /\ ~frame[1].stop_check.stop_triggered

\* C26: when the balance query fails, a stop check, a sizing or a stats read
\* leaves the whole ledger as it was, and the stop check decides on the
\* stored values.
C26_FailedQuery ==
  [][\A p \in ProcIds :
       (LedgerRead(p) /\ ~connected)
         => /\ daily_stats' = daily_stats
            /\ pc'[p] = "checked"
                 => frame'[p].stop_check = StopDecision(daily_stats)]_vars

\* A stop check that ran without a connection, a day after the ledger was
\* opened at 2000.00 and refreshed to 1000.00, and reported STOP_LOSS from
\* the stored values.
C26_Witness ==
  /\ pc[1] = "checked"
  /\ ~connected
  /\ daily_stats.date # today
  /\ daily_stats.initial_balance = 200000
  /\ daily_stats.current_balance = 100000
  /\ frame[1].stop_check.reason = "STOP_LOSS"
  /\ frame[1].stop_check.percentage = Rat(-10000000, 200000)

\* C27: for every asset with statistics, trades = wins + losses, trades is
\* the number of the asset's ledger records that carry a result, and
\* profit_loss is the sum of their profit_loss; every asset of a ledger
\* record has statistics.
RECURSIVE SumProfitLoss(_, _)
SumProfitLoss(trades, ks) ==
  IF ks = {}
    THEN 0
    ELSE LET k == CHOOSE x \in ks : TRUE
         IN (IF trades[k].profit_loss.ok THEN trades[k].profit_loss.val ELSE 0)
              + SumProfitLoss(trades, ks \ {k})

C27_AssetStatsConsistent ==
  \A a \in Assets :
    LET records == {k \in DOMAIN daily_stats.trades :
                      daily_stats.trades[k].asset = a}
        closed == {k \in records : daily_stats.trades[k].result # "NONE"}
    IN /\ records # {} => a \in DOMAIN daily_stats.assets
       /\ a \in DOMAIN daily_stats.assets =>
            LET st == daily_stats.assets[a]
            IN /\ st.trades = st.wins + st.losses
               /\ st.trades = Cardinality(closed)
               /\ st.profit_loss = SumProfitLoss(daily_stats.trades, closed)

\* A ledger with a pending EURUSD order, its closing as a win, and a pending
\* GBPUSD order.
C27_Witness ==
  /\ Len(daily_stats.trades) = 3
  /\ DOMAIN daily_stats.assets = {"EURUSD", "GBPUSD"}
  /\ daily_stats.assets["EURUSD"].trades = 1
  /\ daily_stats.assets["EURUSD"].wins = 1
  /\ daily_stats.assets["EURUSD"].profit_loss > 0
  /\ daily_stats.assets["GBPUSD"].trades = 0

=============================================================================
